---- MODULE Spec2Model ----
(***************************************************************************)
(* A model of proteraios-queue: FifoQueue, PriorityQueue and ReliableQueue *)
(* (src/proteraios/queue.py) and the polling Client                        *)
(* (src/proteraios/client.py), over a store of lists, sets, sorted sets    *)
(* and hashes whose single commands, MULTI/EXEC pipelines and Lua scripts  *)
(* are atomic.                                                             *)
(*                                                                         *)
(* A string is a sequence of one-character strings, so that formatting an  *)
(* envelope (length, payload, timestamp, joined by colons) and parsing it  *)
(* with the scripts' Lua pattern are computed, not assumed.  An optional   *)
(* value is a sequence of length 0 (None / nil) or 1.                      *)
(***************************************************************************)
EXTENDS Integers, Sequences, FiniteSets, TLC

VARIABLES
    clock,          \* time.time(), in ticks of 1/TicksPerUnit time units
    fifo,           \* FifoQueue: the store's list, index 1 = head (left)
    zset,           \* PriorityQueue: the store's sorted set, in (score, member) order
    ring,           \* ReliableQueue: the store's list, index 1 = head (left)
    completed_set,  \* ReliableQueue: the store's set '<name>:completed_set'
    last,           \* the most recent step: a call's name, arguments and result
    pushed,         \* history, FifoQueue: the tokens pushed, in call order
    popped,         \* history, FifoQueue: the tokens pops returned, in call order
    zpushes,        \* history, PriorityQueue: push calls per token
    zpops,          \* history, PriorityQueue: pops that returned each token
    zrun,           \* history, PriorityQueue: scores popped since the last push
    npush,          \* history, ReliableQueue: push calls per payload
    nfirst,         \* history, ReliableQueue: pops that returned (payload, None)
    received,       \* history, ReliableQueue: the (payload, ts) pops handed out
    nredo,          \* history, ReliableQueue: reprocess calls
    jobs,           \* the store's hashes: job id -> (field -> value)
    cpc,            \* Client.send: where the call stands
    job,            \* Client.send: the local job dict (id, timeout)
    poll_until,     \* Client._poll: the deadline, in whole time units
    wake,           \* Client._poll: the clock at which sleep_func returns
    status,         \* Client._poll: the status it returns
    sent,           \* what send returned
    started,        \* history, Client: the clock when _poll computed poll_until
    nsent,          \* history, Client: send calls made
    wpc,            \* worker: where it stands with the job id it popped
    wid             \* worker: the job id it popped

fifoVars == <<fifo, pushed, popped>>
pqVars == <<zset, zpushes, zpops, zrun>>
relVars == <<ring, completed_set, npush, nfirst, received, nredo>>

cliVars == <<jobs, cpc, job, poll_until, wake, status, sent, started, nsent>>
wrkVars == <<wpc, wid>>

vars == <<clock, last, fifoVars, pqVars, relVars, cliVars, wrkVars>>

----------------------------------------------------------------------------
(* Bounds of the model. *)

\* clock ticks per time unit: int(time.time()) drops the fraction
TicksPerUnit == 2
\* the clock stops advancing after this many whole time units
MaxTime == 2
\* the number of push calls on the FIFO queue
MaxPush == 3
\* the number of push calls on the reliable queue
MaxRPush == 2
\* the number of push calls on the priority queue
MaxZPush == 4
\* Client(max_poll_time=...), in time units
max_poll_time == 2
\* the number of send calls
MaxSend == 2
\* the number of reprocess calls on the reliable queue
MaxRedo == 2

----------------------------------------------------------------------------
(* Strings. *)

None == << >>
Some(x) == <<x>>

Digits == <<"0", "1", "2", "3", "4", "5", "6", "7", "8", "9">>

IsDigit(c) == \E i \in 1..10 : Digits[i] = c

DigitValue(c) == (CHOOSE i \in 1..10 : Digits[i] = c) - 1

\* "%d" % n, str(n) and Lua's number-to-string of a non-negative integer
RECURSIVE Dec(_)
Dec(n) == IF n < 10 THEN <<Digits[n + 1]>>
          ELSE Dec(n \div 10) \o <<Digits[(n % 10) + 1]>>

\* int(s) of a non-empty string of digits
RECURSIVE ParseInt(_)
ParseInt(s) == IF Len(s) = 1 THEN DigitValue(s[1])
               ELSE 10 * ParseInt(SubSeq(s, 1, Len(s) - 1)) + DigitValue(s[Len(s)])

\* int(time.time())
IntTime(c) == c \div TicksPerUnit

\* byte order of the characters used in queue members
CharCode(c) == CASE c = "A" -> 65 [] c = "B" -> 66 [] c = "C" -> 67
                 [] c = "a" -> 97 [] c = "b" -> 98 [] c = ":" -> 58
                 [] OTHER -> 48 + DigitValue(c)

\* memcmp order of two strings (the sorted set's order among equal scores)
RECURSIVE LexLess(_, _)
LexLess(s, t) ==
    IF t = << >> THEN FALSE
    ELSE IF s = << >> THEN TRUE
    ELSE IF CharCode(s[1]) # CharCode(t[1]) THEN CharCode(s[1]) < CharCode(t[1])
    ELSE LexLess(Tail(s), Tail(t))

\* a .. ':' .. b .. ':' .. c
Join3(a, b, c) == a \o <<":">> \o b \o <<":">> \o c

\* the envelope of a payload: its length, the payload, its claim timestamp
\* (ts is a string, empty while the envelope is unclaimed)
Envelope(msg, ts) == Join3(Dec(Len(msg)), msg, ts)

\* the length of the run of digits of s that starts at position i
RECURSIVE DigitRun(_, _)
DigitRun(s, i) == IF i > Len(s) \/ ~IsDigit(s[i]) THEN 0 ELSE 1 + DigitRun(s, i + 1)

\* the positions after position j of s that hold a colon
ColonsAfter(s, j) == {e \in (j + 1)..Len(s) : s[e] = ":"}

\* The Lua pattern of the scripts (digits, colon, one or more characters,
\* colon, digits or nothing) matched against s from position init, whose
\* run of digits has length d.  The first capture must be followed by a colon,
\* so it is the whole run; the second is greedy and ends before the last colon
\* that leaves it a character; the third takes every digit that follows.
\* None, or the captures <<l, msg, ts>>.
MatchAt(s, init, d) ==
    IF d = 0 \/ init + d > Len(s) \/ s[init + d] # ":" \/ ColonsAfter(s, init + d + 1) = {}
    THEN None
    ELSE LET e == CHOOSE a \in ColonsAfter(s, init + d + 1) :
                      \A b \in ColonsAfter(s, init + d + 1) : a >= b
         IN  << SubSeq(s, init, init + d - 1),
                SubSeq(s, init + d + 1, e - 1),
                SubSeq(s, e + 1, e + DigitRun(s, e + 1)) >>

\* string.match(s, pattern): the match at the leftmost position that has one
RECURSIVE MatchFrom(_, _)
MatchFrom(s, init) ==
    IF init > Len(s) THEN None
    ELSE IF MatchAt(s, init, DigitRun(s, init)) # None
         THEN MatchAt(s, init, DigitRun(s, init))
         ELSE MatchFrom(s, init + 1)

LuaMatch(s) == MatchFrom(s, 1)

----------------------------------------------------------------------------
(* Results of a call, as the Python caller sees them. *)

RNone == [tag |-> "None", msg |-> << >>, ts |-> None, n |-> 0]
RStr(m) == [tag |-> "str", msg |-> m, ts |-> None, n |-> 0]
RInt(k) == [tag |-> "int", msg |-> << >>, ts |-> None, n |-> k]
RTuple(m, t) == [tag |-> "tuple", msg |-> m, ts |-> t, n |-> 0]
\* redis.exceptions.ResponseError: the script ended with an error
RError == [tag |-> "error", msg |-> << >>, ts |-> None, n |-> 0]

Call(op, m, t, r) == [op |-> op, msg |-> m, ts |-> t, ret |-> r]

----------------------------------------------------------------------------
(* The store's commands. *)

LPush(list, v) == <<v>> \o list
\* a push at the wrong end
RPushAtHead(list, v) == <<v>> \o list
RPush(list, v) == Append(list, v)
LLen(list) == Len(list)
\* the list after LPOP / RPOP of a non-empty list
LPopRest(list) == Tail(list)
RPopRest(list) == SubSeq(list, 1, Len(list) - 1)
\* LREM key 0 v: every occurrence of v is removed
LRem(list, v) == SelectSeq(list, LAMBDA e : e # v)
Occurrences(list, v) == Cardinality({i \in 1..Len(list) : list[i] = v})

SAdd(set, m) == set \cup {m}
SRem(set, m) == set \ {m}
SIsMember(set, m) == IF m \in set THEN 1 ELSE 0

\* A sorted set is the sequence of its entries in (score, member) order.
ZEntry(m, score) == [member |-> m, score |-> score]
ZBefore(e, f) ==
    e.score < f.score \/ (e.score = f.score /\ LexLess(e.member, f.member))
ZMembers(z) == {z[i].member : i \in 1..Len(z)}
ZCard(z) == Len(z)
ZRem(z, m) == SelectSeq(z, LAMBDA e : e.member # m)
\* an insertion that keeps the member's old entry
ZAddKeepsOld(z, score, m) ==
    LET e == ZEntry(m, score)
        k == Cardinality({i \in 1..Len(z) : ZBefore(z[i], e)})
    IN  SubSeq(z, 1, k) \o <<e>> \o SubSeq(z, k + 1, Len(z))
\* ZADD key score member: the member's old entry, if any, is replaced
ZAdd(z, score, m) ==
    LET rest == ZRem(z, m)
        e == ZEntry(m, score)
        k == Cardinality({i \in 1..Len(rest) : ZBefore(rest[i], e)})
    IN  SubSeq(rest, 1, k) \o <<e>> \o SubSeq(rest, k + 1, Len(rest))
\* ZADD's reply: the number of members added (an update of a score adds none)
ZAddReply(z, m) == IF m \in ZMembers(z) THEN 0 ELSE 1
\* ZRANGE key 0 0: a table holding the first member, or an empty table
ZRange00(z) == IF z = << >> THEN << >> ELSE <<z[1].member>>

\* redis.call with a nil argument: the store refuses the command ("Lua redis()
\* command arguments must be strings or integers").  Depending on the store's
\* version the refusal is raised, ending the script there with its earlier
\* writes kept, or handed back to the script as an error value.
NilArgOutcomes == {"raise", "value"}

\* HMSET key mapping: the fields of mapping are set in the hash at key
HMSet(h, key, mapping) ==
    [k \in (DOMAIN h) \cup {key} |->
        IF k # key THEN h[k]
        ELSE [f \in (IF key \in DOMAIN h THEN DOMAIN h[key] ELSE {}) \cup DOMAIN mapping |->
                 IF f \in DOMAIN mapping THEN mapping[f] ELSE h[key][f]]]
\* HSET key field value: the hash is created when the key does not exist
HSet(h, key, field, value) == HMSet(h, key, [f \in {field} |-> value])
\* HGET key field: the value, or None ("None") without the key or the field
HGet(h, key, field) ==
    IF key \in DOMAIN h /\ field \in DOMAIN h[key] THEN h[key][field] ELSE "None"
\* HGETALL key: the hash, empty without the key
HGetAll(h, key) == IF key \in DOMAIN h THEN h[key] ELSE << >>
\* DEL key
Del(h, key) == [k \in (DOMAIN h) \ {key} |-> h[k]]

----------------------------------------------------------------------------
(* The inputs, and the state after construction: an empty store. *)

Tokens == {<<"A">>, <<"B">>, <<"C">>}
Scores == {1, 3, 5}
\* payloads of the reliable queue: "", "a" and "a:1"
Payloads == {<< >>, <<"a">>, <<"a", ":", "1">>}

NoCall == Call("", << >>, None, RNone)

InitStore ==
    /\ clock = TicksPerUnit
    /\ fifo = << >>
    /\ zset = << >>
    /\ ring = << >>
    /\ completed_set = {}
    /\ last = NoCall

InitHistory ==
    /\ pushed = << >>
    /\ popped = << >>
    /\ zpushes = [t \in Tokens |-> 0]
    /\ zpops = [t \in Tokens |-> 0]
    /\ zrun = << >>
    /\ npush = [p \in Payloads |-> 0]
    /\ nfirst = [p \in Payloads |-> 0]
    /\ received = {}
    /\ nredo = 0
    /\ started = 0
    /\ nsent = 0

NoJob == [id |-> << >>, timeout |-> None]

InitClient ==
    /\ jobs = << >>
    /\ cpc = "idle"
    /\ job = NoJob
    /\ poll_until = 0
    /\ wake = 0
    /\ status = "None"
    /\ sent = << >>

InitWorker ==
    /\ wpc = "idle"
    /\ wid = << >>

Init == InitStore /\ InitHistory /\ InitClient /\ InitWorker

----------------------------------------------------------------------------
(* FifoQueue. *)

FifoLen == LLen(fifo)

\* FifoQueue.push: RPUSH, whose reply is the length after the push
FifoPush(msg) ==
    /\ Len(pushed) < MaxPush
    /\ fifo' = RPush(fifo, msg)
    /\ last' = Call("push", msg, None, RInt(LLen(fifo')))
    /\ pushed' = Append(pushed, msg)
    /\ UNCHANGED <<clock, popped, pqVars, relVars, cliVars, wrkVars>>

\* FifoQueue.pop: LPOP, whose reply is the head or nil
FifoPop ==
    /\ IF fifo = << >>
       THEN /\ last' = Call("pop", << >>, None, RNone)
            /\ UNCHANGED <<fifo, popped>>
       ELSE /\ last' = Call("pop", << >>, None, RStr(fifo[1]))
            /\ fifo' = LPopRest(fifo)
            /\ popped' = Append(popped, fifo[1])
    /\ UNCHANGED <<clock, pushed, pqVars, relVars, cliVars, wrkVars>>

NextFifo ==
    \/ \E msg \in Tokens : FifoPush(msg)
    \/ FifoPop

SpecFifo == Init /\ [][NextFifo]_vars

\* C9: pops return the tokens in the order they were pushed; a push raises the
\* size by one, a pop on a non-empty queue lowers it by one and returns the
\* head, a pop on an empty queue returns None and leaves the size at 0.
FifoOrder ==
    /\ [](popped \o fifo = pushed)
    /\ [][last'.op = "push" => FifoLen' = FifoLen + 1 /\ last'.ret = RInt(FifoLen')]_vars
    /\ [][last'.op = "pop" =>
            IF FifoLen = 0
            THEN last'.ret = RNone /\ FifoLen' = 0
            ELSE last'.ret = RStr(pushed[Len(popped) + 1]) /\ FifoLen' = FifoLen - 1]_vars

FifoOrderWitness ==
    /\ Len(pushed) = 3
    /\ pushed[1] # pushed[2]
    /\ popped = pushed
    /\ last = Call("pop", << >>, None, RNone)

----------------------------------------------------------------------------
(* PriorityQueue. *)

PriorityLen == ZCard(zset)

RECURSIVE SumOver(_, _)
SumOver(f, S) == IF S = {} THEN 0
                 ELSE LET x == CHOOSE y \in S : TRUE IN f[x] + SumOver(f, S \ {x})

ZPushCalls == SumOver(zpushes, Tokens)

\* PriorityQueue.push: ZADD, whose reply n is 1 for an insertion, 0 for an update
PriorityPush(msg, score) ==
    /\ ZPushCalls < MaxZPush
    /\ zset' = ZAdd(zset, score, msg)
    /\ last' = Call("push", msg, Some(score), RInt(ZAddReply(zset, msg)))
    /\ zpushes' = [zpushes EXCEPT ![msg] = @ + 1]
    /\ zrun' = << >>
    /\ UNCHANGED <<clock, zpops, fifoVars, relVars, cliVars, wrkVars>>

\* zpop_script.  result is a table, and a table is true in Lua even when it is
\* empty, so the "then" branch always runs: on an empty set msg = result[1] is
\* nil and ZREM is called with a nil argument.
ZPopScript(z, outcome) ==
    LET result == ZRange00(z)
    IN  IF result # << >>
        THEN [zset |-> ZRem(z, result[1]), ret |-> RStr(result[1])]
        ELSE IF outcome = "raise"
             THEN [zset |-> z, ret |-> RError]
             ELSE [zset |-> z, ret |-> RNone]

\* PriorityQueue.pop: the script's reply, or the exception it raised
PriorityPop(outcome) ==
    LET r == ZPopScript(zset, outcome)
    IN  /\ zset' = r.zset
        /\ last' = Call("pop", << >>, None, r.ret)
        /\ IF r.ret.tag = "str"
           THEN /\ zpops' = [zpops EXCEPT ![r.ret.msg] = @ + 1]
                /\ zrun' = Append(zrun, zset[1].score)
           ELSE UNCHANGED <<zpops, zrun>>
        /\ UNCHANGED <<clock, zpushes, fifoVars, relVars, cliVars, wrkVars>>

NextPriority ==
    \/ \E msg \in Tokens, score \in Scores : PriorityPush(msg, score)
    \/ \E outcome \in NilArgOutcomes : PriorityPop(outcome)

SpecPriority == Init /\ [][NextPriority]_vars

\* a pop on an empty queue returns None and leaves the queue empty
PriorityEmptyPop ==
    [][last'.op = "pop" /\ zset = << >> => last'.ret = RNone /\ zset' = << >>]_vars

\* C6: no token is returned by more pops than it was pushed (a token pushed
\* once is returned at most once); a pop on a one-element queue returns the
\* element and empties the queue, so that of two pops one gets the element and
\* the other None; a pop on an empty queue returns None and leaves it empty.
PriorityPopOnce ==
    /\ [](\A t \in Tokens : zpops[t] <= zpushes[t])
    /\ [][last'.op = "pop" /\ Len(zset) = 1 =>
            last'.ret = RStr(zset[1].member) /\ zset' = << >>]_vars
    /\ PriorityEmptyPop

ZScores(z) == {z[i].score : i \in 1..Len(z)}

\* C7: a pop on a non-empty queue returns and removes a token whose score is
\* at most every score in the queue; pops with no push in between return
\* non-decreasing scores, and None once the queue is empty.
PriorityPopsMinimum ==
    /\ [][last'.op = "pop" /\ zset # << >> =>
            \E i \in 1..Len(zset) :
                /\ last'.ret = RStr(zset[i].member)
                /\ \A s \in ZScores(zset) : zset[i].score <= s
                /\ zset' = ZRem(zset, zset[i].member)
                /\ Len(zset') = Len(zset) - 1]_vars
    /\ [](\A i \in 1..Len(zrun), j \in 1..Len(zrun) : i < j => zrun[i] <= zrun[j])
    /\ PriorityEmptyPop

\* C8: each token appears at most once; a push of a token not in the queue
\* adds it with its score, raises the size by one and returns 1; a push of a
\* token in the queue leaves the size unchanged, replaces its score and
\* returns 0; the queue stays in score order, so the new score decides when
\* the token is popped.
PriorityPushUpserts ==
    /\ [](\A i \in 1..Len(zset), j \in 1..Len(zset) :
            i < j => zset[i].member # zset[j].member /\ ZBefore(zset[i], zset[j]))
    /\ [][last'.op = "push" =>
            /\ \E i \in 1..Len(zset') : zset'[i] = ZEntry(last'.msg, last'.ts[1])
            /\ ZMembers(zset') = ZMembers(zset) \cup {last'.msg}
            /\ \A i \in 1..Len(zset) : zset[i].member # last'.msg =>
                    \E j \in 1..Len(zset') : zset'[j] = zset[i]
            /\ IF last'.msg \in ZMembers(zset)
               THEN PriorityLen' = PriorityLen /\ last'.ret = RInt(0)
               ELSE PriorityLen' = PriorityLen + 1 /\ last'.ret = RInt(1)]_vars

\* a token was pushed again with a lower score, which moved it to the front
PriorityPushUpsertsWitness ==
    /\ last = Call("push", <<"C">>, Some(1), RInt(0))
    /\ Len(zset) = 3
    /\ zset[1] = ZEntry(<<"C">>, 1)
    /\ zset[2].score = 3

----------------------------------------------------------------------------
(* ReliableQueue. *)

ReliableLen == LLen(ring)

\* the whole time units a client may have read from the clock by now: a
\* client reads int(time.time()) before it sends its script, and other
\* clients' calls and any delay may come between the two
ClockReadings == {IntTime(c) : c \in TicksPerUnit..clock}

\* a remove that drops the timestamp of its item
TsStrEmpty(ts) == << >>
\* str(ts) if ts else ''
TsStr(ts) == IF ts = None \/ ts[1] = 0 THEN << >> ELSE Dec(ts[1])

\* a push that puts the envelope at the tail, where pop takes it next
ReliablePushAtTail(msg) ==
    /\ SumOver(npush, Payloads) < MaxRPush
    /\ ring' = Append(ring, Envelope(msg, << >>))
    /\ last' = Call("push", msg, None, RInt(LLen(ring')))
    /\ npush' = [npush EXCEPT ![msg] = @ + 1]
    /\ UNCHANGED <<clock, completed_set, nfirst, received, nredo, fifoVars, pqVars, cliVars, wrkVars>>

\* ReliableQueue.push: LPUSH of "<len>:<msg>:"
ReliablePush(msg) ==
    /\ SumOver(npush, Payloads) < MaxRPush
    /\ ring' = LPush(ring, Envelope(msg, << >>))
    /\ last' = Call("push", msg, None, RInt(LLen(ring')))
    /\ npush' = [npush EXCEPT ![msg] = @ + 1]
    /\ UNCHANGED <<clock, completed_set, nfirst, received, nredo, fifoVars, pqVars, cliVars, wrkVars>>

Store(list, set, reply, error) ==
    [ring |-> list, completed_set |-> set, reply |-> reply, error |-> error]

\* a script that puts an unclaimed envelope back without its timestamp
RPopElemUnstamped(elem, rest, m, set, argv1, outcome) ==
    IF m = None
    THEN Store(rest, set, None, outcome = "raise")
    ELSE IF m[3] = << >> \/ SIsMember(set, m[2]) = 0
    THEN Store(LPush(rest, elem), set, <<m[2], m[3]>>, FALSE)
    ELSE Store(rest, SRem(set, m[2]), None, FALSE)

\* a script that stamps a claimed envelope anew when it puts it back
RPopElemRestamped(elem, rest, m, set, argv1, outcome) ==
    IF m = None
    THEN Store(rest, set, None, outcome = "raise")
    ELSE IF m[3] = << >> \/ SIsMember(set, m[2]) = 0
    THEN Store(LPush(rest, Join3(m[1], m[2], argv1)), set, <<m[2], m[3]>>, FALSE)
    ELSE Store(rest, SRem(set, m[2]), None, FALSE)

\* rpop_script once elem was popped, leaving rest, and matched as m.  An
\* envelope the pattern does not match leaves l, msg and ts nil; ts == '' is
\* then false and SISMEMBER is called with a nil argument.  Handed back as a
\* value, the refusal is not 0, so SREM is called (and refused) and ret is nil.
RPopElem(elem, rest, m, set, argv1, outcome) ==
    IF m = None
    THEN Store(rest, set, None, outcome = "raise")
    ELSE IF m[3] = << >>
    THEN Store(LPush(rest, Join3(m[1], m[2], argv1)), set, <<m[2], m[3]>>, FALSE)
    ELSE IF SIsMember(set, m[2]) = 0
    THEN Store(LPush(rest, elem), set, <<m[2], m[3]>>, FALSE)
    ELSE Store(rest, SRem(set, m[2]), None, FALSE)

\* rpop_script on list and set with ARGV[1] = argv1: the list and the set after
\* it and its reply (None for nil, <<msg, ts>> for the table), or an error
RPopScript(list, set, argv1, outcome) ==
    IF list = << >>
    THEN Store(list, set, None, FALSE)
    ELSE RPopElem(list[Len(list)], RPopRest(list), LuaMatch(list[Len(list)]),
                  set, argv1, outcome)

\* what pop returns for the script's reply: None, or
\* (msg, int(ts) if ts else None)
PopResult(r) ==
    IF r.error THEN RError
    ELSE IF r.reply = None THEN RNone
    ELSE RTuple(r.reply[1],
                IF r.reply[2] = << >> THEN None ELSE Some(ParseInt(r.reply[2])))

PopReturns(t, r, ret) ==
    /\ ring' = r.ring
    /\ completed_set' = r.completed_set
    /\ last' = Call("pop", << >>, None, ret)
    /\ nfirst' = IF ret.tag = "tuple" /\ ret.ts = None
                 THEN [nfirst EXCEPT ![ret.msg] = @ + 1] ELSE nfirst
    /\ received' = IF ret.tag = "tuple" /\ ret.ts # None
                   THEN received \cup {<<ret.msg, ret.ts[1]>>} ELSE received
    /\ UNCHANGED <<clock, npush, nredo, fifoVars, pqVars, cliVars, wrkVars>>

\* ReliableQueue.pop with ts = t read from the clock
ReliablePop(t, outcome) ==
    \E r \in {RPopScript(ring, completed_set, Dec(t), outcome)} :
        PopReturns(t, r, PopResult(r))

\* a complete that also deletes the payload's unclaimed envelope
ReliableCompleteAndRemove(msg) ==
    /\ completed_set' = SAdd(completed_set, msg)
    /\ ring' = LRem(ring, Envelope(msg, << >>))
    /\ last' = Call("complete", msg, None, RNone)
    /\ UNCHANGED <<clock, npush, nfirst, received, nredo, fifoVars, pqVars, cliVars, wrkVars>>

\* ReliableQueue.complete: SADD of the payload
ReliableComplete(msg) ==
    /\ completed_set' = SAdd(completed_set, msg)
    /\ last' = Call("complete", msg, None, RNone)
    /\ UNCHANGED <<clock, ring, npush, nfirst, received, nredo, fifoVars, pqVars, cliVars, wrkVars>>

\* ReliableQueue.remove(item), item = (msg, ts): LREM of the envelope and SREM
\* of the payload in one MULTI/EXEC pipeline
ReliableRemove(msg, ts) ==
    /\ ring' = LRem(ring, Envelope(msg, TsStr(ts)))
    /\ completed_set' = SRem(completed_set, msg)
    /\ last' = Call("remove", msg, ts, RNone)
    /\ UNCHANGED <<clock, npush, nfirst, received, nredo, fifoVars, pqVars, cliVars, wrkVars>>

\* redo_script after its LREM and SREM, with ARGV[1] matched as m.  When the
\* pattern does not match, l is nil and l .. ':' is a Lua error: the script
\* ends there.
RedoMatched(removed, cleared, m, argv2) ==
    IF m = None
    THEN Store(removed, cleared, << >>, TRUE)
    ELSE Store(LPush(removed, Join3(m[1], m[2], argv2)), cleared, m[2], FALSE)

\* redo_script with ARGV[1] = argv1 (an envelope) and ARGV[2] = argv2: LREM and
\* SREM of ARGV[1], then LPUSH of the envelope rebuilt with ARGV[2]
RedoScript(list, set, argv1, argv2) ==
    RedoMatched(LRem(list, argv1), SRem(set, argv1), LuaMatch(argv1), argv2)

\* ReliableQueue.reprocess(msg, cts) with ts = t read from the clock
ReliableReprocess(msg, cts, t) ==
    /\ nredo < MaxRedo
    /\ \E r \in {RedoScript(ring, completed_set, Envelope(msg, Dec(cts)), Dec(t))} :
        /\ ring' = r.ring
        /\ completed_set' = r.completed_set
        /\ last' = Call("reprocess", msg, Some(cts),
                        IF r.error THEN RError ELSE RStr(r.reply))
    /\ nredo' = nredo + 1
    /\ UNCHANGED <<clock, npush, nfirst, received, fifoVars, pqVars, cliVars, wrkVars>>

\* a time unit passes
TickUnit ==
    /\ IntTime(clock) < MaxTime
    /\ clock' = clock + TicksPerUnit
    /\ last' = Call("tick", << >>, None, RNone)
    /\ UNCHANGED <<fifoVars, pqVars, relVars, cliVars, wrkVars>>

NextReliable ==
    \/ \E msg \in Payloads : ReliablePush(msg)
    \/ \E t \in ClockReadings, outcome \in NilArgOutcomes : ReliablePop(t, outcome)
    \/ \E msg \in Payloads : ReliableComplete(msg)
    \/ \E msg \in Payloads, ts \in {None} \cup {Some(t) : t \in ClockReadings} :
            ReliableRemove(msg, ts)
    \/ \E item \in received, t \in ClockReadings :
            ReliableReprocess(item[1], item[2], t)
    \/ TickUnit

SpecReliable == Init /\ [][NextReliable]_vars

----------------------------------------------------------------------------
(* ReliableQueue: properties. *)

Times == 1..MaxTime

\* e is the envelope of payload p claimed at t
ClaimedAt(e, p, t) == e = Envelope(p, Dec(t))

\* e is an envelope of payload p, claimed or not
IsEnvelopeOf(e, p) == e = Envelope(p, << >>) \/ \E t \in Times : ClaimedAt(e, p, t)

EnvelopesOf(list, p) == Cardinality({i \in 1..Len(list) : IsEnvelopeOf(list[i], p)})

RingTail == ring[Len(ring)]

\* no payload is returned as (payload, None) by more pops than it was pushed
FirstClaimsBounded == \A p \in Payloads : nfirst[p] <= npush[p]

\* C1 as stated: (p, None) is returned by at most as many pops as push(p) was
\* called, and every pop that dequeues an envelope of p already claimed at t
\* returns (p, t).
PopClaimsOnceAsStated ==
    /\ []FirstClaimsBounded
    /\ [][last'.op = "pop" /\ ring # << >> =>
            \A p \in Payloads, t \in Times :
                ClaimedAt(RingTail, p, t) => last'.ret = RTuple(p, Some(t))]_vars

\* C1, amended: (p, None) is returned by at most as many pops as push(p) was
\* called, and every pop that dequeues an envelope of p already claimed at t
\* returns (p, t) and puts the envelope back, unless p is in the completion
\* set: then it returns None, and the envelope and the membership are gone.
PopClaimsOnce ==
    /\ []FirstClaimsBounded
    /\ [][last'.op = "pop" /\ ring # << >> =>
            \A p \in Payloads, t \in Times :
                ClaimedAt(RingTail, p, t) =>
                    IF p \in completed_set
                    THEN /\ last'.ret = RNone
                         /\ ring' = RPopRest(ring)
                         /\ completed_set' = completed_set \ {p}
                    ELSE /\ last'.ret = RTuple(p, Some(t))
                         /\ ring' = LPush(RPopRest(ring), RingTail)
                         /\ completed_set' = completed_set]_vars

\* two pops dequeued the one envelope pushed for "a": the first claimed it at
\* 1, the second was told so, and a third pop retired it after complete("a")
PopClaimsOnceWitness ==
    /\ npush[<<"a">>] = 1
    /\ nfirst[<<"a">>] = 1
    /\ <<<<"a">>, 1>> \in received
    /\ last = Call("pop", << >>, None, RNone)
    /\ ring = << >>

\* C2, for the non-empty payloads: a step lowers the number of envelopes of
\* payload p in the ring only if it is a remove called for p (which deletes
\* the envelopes equal to its argument) or a pop that retires one envelope of
\* p while p is in the completion set.
NoEnvelopeDropped ==
    [][\A p \in Payloads \ {<< >>} :
          EnvelopesOf(ring', p) < EnvelopesOf(ring, p) =>
              \/ last'.op = "remove" /\ last'.msg = p
              \/ /\ last'.op = "pop"
                 /\ p \in completed_set
                 /\ EnvelopesOf(ring', p) = EnvelopesOf(ring, p) - 1]_vars

\* C3: after reprocess(p, old_ts) has returned p, p is not in the completion
\* set.
ReprocessClearsCompletion ==
    last.op = "reprocess" /\ last.ret = RStr(last.msg) => last.msg \notin completed_set

\* C4: a reprocess(p, old_ts) called with a (p, old_ts) that pop handed out
\* returns p, removes one envelope (p, old_ts), puts one envelope of p with a
\* clock reading at the head and leaves the length of the ring unchanged.
ReprocessReplaces ==
    [][last'.op = "reprocess" /\ <<last'.msg, last'.ts[1]>> \in received =>
          /\ last'.ret = RStr(last'.msg)
          /\ ReliableLen' = ReliableLen
          /\ \E t \in Times : ClaimedAt(ring'[1], last'.msg, t)
          /\ Occurrences(Tail(ring'), Envelope(last'.msg, Dec(last'.ts[1])))
                = Occurrences(ring, Envelope(last'.msg, Dec(last'.ts[1]))) - 1]_vars

\* C5: the basic cycle.  A pop on an empty ring returns None.  On a ring
\* that holds only the envelope of a push(p), the first pop returns
\* (p, None) and stamps the envelope with its clock reading t1; every pop
\* before complete(p) returns (p, t1) and changes nothing; the size is 1
\* throughout.  After complete(p) the next pop removes the envelope and the
\* size is 0.
BasicCycle ==
    /\ [][last'.op = "pop" /\ ring = << >> =>
            last'.ret = RNone /\ ring' = << >>]_vars
    /\ [][last'.op = "pop" =>
            \A p \in Payloads :
                ring = <<Envelope(p, << >>)>> =>
                    /\ last'.ret = RTuple(p, None)
                    /\ \E t \in Times : ring' = <<Envelope(p, Dec(t))>>]_vars
    /\ [][last'.op = "pop" =>
            \A p \in Payloads, t \in Times :
                ring = <<Envelope(p, Dec(t))>> =>
                    IF p \in completed_set
                    THEN last'.ret = RNone /\ ring' = << >> /\ ReliableLen' = 0
                    ELSE last'.ret = RTuple(p, Some(t)) /\ ring' = ring]_vars

----------------------------------------------------------------------------
(* Client. *)

\* Client(poll_freq=...), in time units
poll_freq == 1

\* the timeout argument of send: None, 0 or 1 time unit
Timeouts == {None, Some(0), Some(1)}

\* queue.factory(qtype, rediscon, qname): the queue class of that name
factory(qtype) == qtype

\* the client of tests/test_client.py: Client(r, 'test_fifo', 'FifoQueue', ...)
ClientQueue == factory("FifoQueue")

\* Client.qsize
QSize == IF ClientQueue = "FifoQueue" THEN FifoLen ELSE 0

\* uuid.uuid4().hex: an id no other job has
NewJobId(n) == Dec(n)

\* job['timeout'] if job['timeout'] else self.max_poll_time
PollTimeout(timeout) ==
    IF timeout = None \/ timeout[1] = 0 THEN max_poll_time ELSE timeout[1]

\* time.time() > t, for t in whole time units
ClockPast(t) == clock > t * TicksPerUnit

\* a loop that does not stop on the status fail
TerminalWithoutFail == {"complete", "expire"}
\* _poll: status in ('complete', 'fail', 'expire')
Terminal == {"complete", "fail", "expire"}

\* the fields of job_tpl
JobFields == {"id", "msg", "create_time", "timeout", "finish_time", "status",
              "result", "errors"}

\* the job dict that _create_job writes: id, msg, create_time, timeout and
\* status are set, the other fields are None
JobRecord(id, timeout, now) ==
    [f \in JobFields |->
        CASE f = "id" -> id
          [] f = "msg" -> <<"m">>
          [] f = "create_time" -> Dec(IntTime(now))
          [] f = "timeout" -> IF timeout = None THEN None ELSE Dec(timeout[1])
          [] f = "status" -> "new"
          [] OTHER -> None]

\* a send that pushes the id without having written the record
SendCreateNoRecord(timeout) ==
    /\ cpc = "idle"
    /\ nsent < MaxSend
    /\ nsent' = nsent + 1
    /\ job' = [id |-> NewJobId(nsent'), timeout |-> timeout]
    /\ cpc' = "push"
    /\ last' = Call("send", job'.id, timeout, RNone)
    /\ sent' = << >>
    /\ UNCHANGED <<clock, jobs, poll_until, wake, status, started, fifoVars, pqVars,
                   relVars, wrkVars>>

\* send, _create_job up to its HMSET: the job is written with status 'new'
SendCreate(timeout) ==
    /\ cpc = "idle"
    /\ nsent < MaxSend
    /\ nsent' = nsent + 1
    /\ job' = [id |-> NewJobId(nsent'), timeout |-> timeout]
    /\ jobs' = HMSet(jobs, job'.id, JobRecord(job'.id, timeout, clock))
    /\ cpc' = "push"
    /\ last' = Call("send", job'.id, timeout, RNone)
    /\ sent' = << >>
    /\ UNCHANGED <<clock, poll_until, wake, status, started, fifoVars, pqVars, relVars, wrkVars>>

\* _create_job: self._queue.push(job['id'])
SendPush ==
    /\ cpc = "push"
    /\ ClientQueue = "FifoQueue"
    /\ fifo' = RPush(fifo, job.id)
    /\ pushed' = Append(pushed, job.id)
    /\ cpc' = "poll"
    /\ last' = Call("push", job.id, None, RInt(LLen(fifo')))
    /\ UNCHANGED <<clock, popped, jobs, job, poll_until, wake, status, sent, started,
                   nsent, pqVars, relVars, wrkVars>>

\* _poll: poll_until = int(time.time()) + timeout
PollStart ==
    /\ cpc = "poll"
    /\ poll_until' = IntTime(clock) + PollTimeout(job.timeout)
    /\ started' = clock
    /\ status' = "None"
    /\ cpc' = "check"
    /\ last' = Call("poll", job.id, None, RNone)
    /\ UNCHANGED <<clock, jobs, job, wake, sent, nsent, fifoVars, pqVars, relVars, wrkVars>>

\* a check that gives up as soon as the clock reaches the deadline
PollCheckEarly ==
    /\ cpc = "check"
    /\ cpc' = IF clock >= poll_until * TicksPerUnit THEN "expire" ELSE "get"
    /\ last' = Call("check", job.id, None, RNone)
    /\ UNCHANGED <<clock, jobs, job, poll_until, wake, status, sent, started, nsent,
                   fifoVars, pqVars, relVars, wrkVars>>

\* _poll: if time.time() > poll_until
PollCheck ==
    /\ cpc = "check"
    /\ cpc' = IF ClockPast(poll_until) THEN "expire" ELSE "get"
    /\ last' = Call("check", job.id, None, RNone)
    /\ UNCHANGED <<clock, jobs, job, poll_until, wake, status, sent, started, nsent,
                   fifoVars, pqVars, relVars, wrkVars>>

\* _poll: hset(job['id'], 'status', 'expire'); break
PollExpire ==
    /\ cpc = "expire"
    /\ jobs' = HSet(jobs, job.id, "status", "expire")
    /\ cpc' = "status"
    /\ last' = Call("expire", job.id, None, RNone)
    /\ UNCHANGED <<clock, job, poll_until, wake, status, sent, started, nsent,
                   fifoVars, pqVars, relVars, wrkVars>>

\* _poll: status = self._get_status(job); break on a terminal status, else
\* call sleep_func(poll_freq)
PollGet ==
    /\ cpc = "get"
    /\ status' = HGet(jobs, job.id, "status")
    /\ IF status' \in Terminal
       THEN cpc' = "status" /\ wake' = wake
       ELSE cpc' = "sleep" /\ wake' = clock + poll_freq * TicksPerUnit
    /\ last' = Call("get", job.id, None, RNone)
    /\ UNCHANGED <<clock, jobs, job, poll_until, sent, started, nsent,
                   fifoVars, pqVars, relVars, wrkVars>>

\* _poll: sleep_func(poll_freq) returns once poll_freq has passed
PollWake ==
    /\ cpc = "sleep"
    /\ clock >= wake
    /\ cpc' = "check"
    /\ last' = Call("wake", job.id, None, RNone)
    /\ UNCHANGED <<clock, jobs, job, poll_until, wake, status, sent, started, nsent,
                   fifoVars, pqVars, relVars, wrkVars>>

\* _poll: return self._get_status(job)
PollReturn ==
    /\ cpc = "status"
    /\ status' = HGet(jobs, job.id, "status")
    /\ cpc' = "read"
    /\ last' = Call("status", job.id, None, RNone)
    /\ UNCHANGED <<clock, jobs, job, poll_until, wake, sent, started, nsent,
                   fifoVars, pqVars, relVars, wrkVars>>

\* send: ret = hgetall(job['id'])
SendRead ==
    /\ cpc = "read"
    /\ sent' = HGetAll(jobs, job.id)
    /\ cpc' = "delete"
    /\ last' = Call("read", job.id, None, RNone)
    /\ UNCHANGED <<clock, jobs, job, poll_until, wake, status, started, nsent,
                   fifoVars, pqVars, relVars, wrkVars>>

\* a send that returns without deleting the job's hash
SendKeepsRecord ==
    /\ cpc = "delete"
    /\ cpc' = "idle"
    /\ last' = Call("return", job.id, None, RNone)
    /\ UNCHANGED <<clock, jobs, job, poll_until, wake, status, sent, started, nsent,
                   fifoVars, pqVars, relVars, wrkVars>>

\* a send that also takes its job id out of the queue
SendDeleteAndDequeue ==
    /\ cpc = "delete"
    /\ jobs' = Del(jobs, job.id)
    /\ fifo' = LRem(fifo, job.id)
    /\ cpc' = "idle"
    /\ last' = Call("return", job.id, None, RNone)
    /\ UNCHANGED <<clock, job, poll_until, wake, status, sent, started, nsent,
                   pushed, popped, pqVars, relVars, wrkVars>>

\* send: delete(job['id']); return ret
SendDelete ==
    /\ cpc = "delete"
    /\ jobs' = Del(jobs, job.id)
    /\ cpc' = "idle"
    /\ last' = Call("return", job.id, None, RNone)
    /\ UNCHANGED <<clock, job, poll_until, wake, status, sent, started, nsent,
                   fifoVars, pqVars, relVars, wrkVars>>

\* The clock advances by one tick.  It is stopped only when no send call is
\* waiting for it: before a call has computed its deadline it runs up to
\* MaxTime, for a polling call until the deadline has passed and the sleep
\* has ended.
ClockLimit ==
    IF cpc \in {"check", "get", "sleep", "expire"}
    THEN IF wake > poll_until * TicksPerUnit + 1 THEN wake
         ELSE poll_until * TicksPerUnit + 1
    ELSE MaxTime * TicksPerUnit

Tick ==
    /\ clock < ClockLimit
    /\ clock' = clock + 1
    /\ last' = Call("tick", << >>, None, RNone)
    /\ UNCHANGED <<fifoVars, pqVars, relVars, cliVars, wrkVars>>

SendStep ==
    \/ \E timeout \in Timeouts : SendCreate(timeout)
    \/ SendPush
    \/ PollStart
    \/ PollCheck
    \/ PollExpire
    \/ PollGet
    \/ PollWake
    \/ PollReturn
    \/ SendRead
    \/ SendDelete

\* a client whose queue has no consumer
NextNoConsumer == SendStep \/ Tick

SpecNoConsumer == Init /\ [][NextNoConsumer]_vars

----------------------------------------------------------------------------
(* A client and a worker.  The worker is the external consumer of the     *)
(* client's queue: it pops a job id, writes the status processing into the *)
(* job's hash, and later writes complete or fail.  Each of its writes is   *)
(* one HSET, made whenever the worker gets to it.                          *)

\* the worker pops the client's queue: a job id, or None when it is empty
WorkerPop ==
    /\ wpc = "idle"
    /\ ClientQueue = "FifoQueue"
    /\ IF fifo = << >>
       THEN /\ last' = Call("work", << >>, None, RNone)
            /\ UNCHANGED <<fifo, popped, wpc, wid>>
       ELSE /\ last' = Call("work", fifo[1], None, RStr(fifo[1]))
            /\ fifo' = LPopRest(fifo)
            /\ popped' = Append(popped, fifo[1])
            /\ wid' = fifo[1]
            /\ wpc' = "got"
    /\ UNCHANGED <<clock, pushed, pqVars, relVars, cliVars>>

\* the worker writes status = processing
WorkerProcessing ==
    /\ wpc = "got"
    /\ jobs' = HSet(jobs, wid, "status", "processing")
    /\ wpc' = "processing"
    /\ last' = Call("processing", wid, None, RNone)
    /\ UNCHANGED <<clock, wid, job, cpc, poll_until, wake, status, sent, started, nsent,
                   fifoVars, pqVars, relVars>>

\* the worker writes status = complete or status = fail
WorkerFinish(st) ==
    /\ wpc = "processing"
    /\ jobs' = HSet(jobs, wid, "status", st)
    /\ wpc' = "idle"
    /\ wid' = << >>
    /\ last' = Call(st, wid, None, RNone)
    /\ UNCHANGED <<clock, job, cpc, poll_until, wake, status, sent, started, nsent,
                   fifoVars, pqVars, relVars>>

WorkerStep ==
    \/ WorkerPop
    \/ WorkerProcessing
    \/ \E st \in {"complete", "fail"} : WorkerFinish(st)

NextWorker == SendStep \/ Tick \/ WorkerStep

SpecWorker == Init /\ [][NextWorker]_vars

\* the status of the record id, "" when the record does not exist
StatusOf(h, id) ==
    IF id \in DOMAIN h /\ "status" \in DOMAIN h[id] THEN h[id]["status"] ELSE ""

\* C11: once a record's status is complete, fail or expire it never changes
\* while the record exists, and the client writes expire only over the status
\* new or processing.
TerminalIsFinal ==
    /\ [][\A id \in DOMAIN jobs :
            (StatusOf(jobs, id) \in {"complete", "fail", "expire"} /\ id \in DOMAIN jobs')
                => StatusOf(jobs', id) = StatusOf(jobs, id)]_vars
    /\ [][last'.op = "expire" => StatusOf(jobs, job.id) \in {"new", "processing"}]_vars

\* the status of the record send returned, "" when it has none
SentStatus == IF "status" \in DOMAIN sent THEN sent["status"] ELSE ""

\* C12 as stated: the record send returns has a terminal status, and once send
\* has returned the job's record does not exist in the store.
SendReturnsTerminal ==
    (cpc = "idle" /\ nsent > 0) =>
        /\ SentStatus \in {"complete", "fail", "expire"}
        /\ job.id \notin DOMAIN jobs

\* C12, amended: when the poll loop ends the record's status is terminal; send
\* returns the record as it is in the store when it reads it back, whose
\* status is terminal or the processing a worker wrote since the loop ended,
\* never new; and at the moment send returns the record does not exist.
SendReturnsRecord ==
    /\ [][cpc # "status" /\ cpc' = "status" =>
            StatusOf(jobs', job.id) \in {"complete", "fail", "expire"}]_vars
    /\ [][last'.op = "read" => sent' = jobs[job.id]]_vars
    /\ [](cpc = "idle" /\ nsent > 0 =>
            SentStatus \in {"complete", "fail", "expire", "processing"})
    /\ [][last'.op = "return" => job.id \notin DOMAIN jobs']_vars

\* send has returned a record whose status is the processing that the worker
\* wrote after the client had written expire
SendReturnsRecordWitness ==
    /\ cpc = "idle"
    /\ last.op = "return"
    /\ sent["status"] = "processing"
    /\ jobs = << >>

\* The client keeps running and the clock keeps advancing; nothing is assumed
\* of the worker.
SpecWorkerFair == SpecWorker /\ WF_vars(SendStep) /\ WF_vars(Tick)

\* the deadline of the running send call, in clock ticks: the whole time unit
\* in which _poll started, plus the timeout if given and not zero, else
\* max_poll_time
DeadlineTicks ==
    TicksPerUnit * ((started \div TicksPerUnit) +
                    (IF job.timeout \in {None, Some(0)} THEN max_poll_time ELSE job.timeout[1]))

RecordBeforePush ==
    /\ [][last'.op = "push" =>
            /\ job.id \in DOMAIN jobs
            /\ DOMAIN jobs[job.id] = JobFields
            /\ jobs[job.id]["status"] = "new"
            /\ jobs[job.id]["id"] = job.id
            /\ \A i \in 1..Len(fifo) : fifo[i] # job.id]_vars
    /\ [](cpc # "idle" /\ cpc # "push" =>
            job.id \in DOMAIN jobs /\ DOMAIN jobs[job.id] = JobFields)
    /\ [][last'.op = "work" /\ last'.ret = RStr(job.id) /\ cpc # "idle" =>
            job.id \in DOMAIN jobs' /\ DOMAIN jobs'[job.id] = JobFields]_vars

\* the worker has popped the id of the job whose send call is asleep in its
\* poll loop
RecordBeforePushWitness ==
    /\ last.op = "work"
    /\ last.ret = RStr(job.id)
    /\ cpc = "sleep"
    /\ wpc = "got"
    /\ StatusOf(jobs, wid) = "new"

\* C20: with no consumer, only the push of a send call changes the queue, by
\* adding the job id at its tail; when send has returned with status expire
\* the id is still in the queue, whose size is one more than before the call,
\* and the job's record is gone.
SendLeavesId ==
    /\ [][fifo' = IF last'.op = "push" THEN Append(fifo, job.id) ELSE fifo]_vars
    /\ [](cpc = "idle" /\ nsent > 0 =>
            /\ SentStatus = "expire"
            /\ \E i \in 1..Len(fifo) : fifo[i] = job.id
            /\ QSize = nsent
            /\ job.id \notin DOMAIN jobs)
    /\ [](cpc # "idle" => QSize = (nsent - 1) + (IF cpc = "push" THEN 0 ELSE 1))

\* two send calls have expired: both ids are in the queue and no record is left
SendLeavesIdWitness ==
    /\ cpc = "idle"
    /\ nsent = 2
    /\ last.op = "return"
    /\ fifo = <<NewJobId(1), NewJobId(2)>>
    /\ jobs = << >>

----------------------------------------------------------------------------
(* ReliableQueue: the order in which envelopes are offered. *)

\* producers and consumers only: pushes and pops
NextPushPop ==
    \/ \E msg \in Payloads : ReliablePush(msg)
    \/ \E t \in ClockReadings, outcome \in NilArgOutcomes : ReliablePop(t, outcome)
    \/ TickUnit

SpecPushPop == Init /\ [][NextPushPop]_vars

\* e is an envelope that no pop has claimed
Unclaimed(e) == \E p \in Payloads : e = Envelope(p, << >>)

\* e is an envelope that a pop has claimed
Claimed(e) == \E p \in Payloads, t \in Times : ClaimedAt(e, p, t)

\* the call returned a payload with a claim timestamp
ReturnsClaimed(r) == r.tag = "tuple" /\ r.ts # None

\* C14 as stated: a pop does not return a claimed envelope while an unclaimed
\* envelope is in the ring.
ClaimedAfterUnclaimed ==
    [][last'.op = "pop" /\ (\E i \in 1..Len(ring) : Unclaimed(ring[i]))
          => ~ReturnsClaimed(last'.ret)]_vars

\* C14, amended: a push puts its envelope at the head and a pop dequeues the
\* envelope at the tail, whatever the rest of the ring holds.  With pushes and
\* pops only, a pop returns a claimed envelope exactly when the tail is one,
\* and puts it back at the head, behind every envelope that is in the ring at
\* that moment and ahead of every envelope pushed later: so unclaimed
\* envelopes pushed after a claim are offered after the claimed envelope.
ClaimedBehindRing ==
    /\ [][last'.op = "push" => ring' = <<Envelope(last'.msg, << >>)>> \o ring]_vars
    /\ [][last'.op = "pop" /\ ring # << >> =>
            /\ ReturnsClaimed(last'.ret) <=> Claimed(RingTail)
            /\ Claimed(RingTail) =>
                  /\ ring' = <<RingTail>> \o RPopRest(ring)
                  /\ \E p \in Payloads, t \in Times :
                        /\ ClaimedAt(RingTail, p, t)
                        /\ last'.ret = RTuple(p, Some(t))]_vars
    /\ [][last'.op = "pop" /\ ring = << >> => ~ReturnsClaimed(last'.ret)]_vars

\* a pop has returned the claimed envelope of "a" while the envelope of a
\* later push was waiting, unclaimed, nearer the head
ClaimedBehindRingWitness ==
    /\ last = Call("pop", << >>, None, RTuple(<<"a">>, Some(1)))
    /\ Len(ring) = 2
    /\ ring[1] = Envelope(<<"a">>, Dec(1))
    /\ Unclaimed(ring[2])

----------------------------------------------------------------------------
(* ReliableQueue: complete, remove and the claim timestamp. *)

\* a complete call adds its payload to the completion set and leaves the ring
\* as it is
CompleteFrame ==
    [][last'.op = "complete" =>
          ring' = ring /\ completed_set' = completed_set \cup {last'.msg}]_vars

EnvelopeOfItem(msg, ts) == Envelope(msg, IF ts = None THEN << >> ELSE Dec(ts[1]))

\* C16: remove((p, ts)) deletes the envelopes equal to the envelope of (p, ts),
\* leaves the others in place and in order, and takes p out of the completion
\* set, whether or not p is in it; a second call with the same item changes
\* nothing.
RemoveExact ==
    /\ [][last'.op = "remove" =>
            /\ ring' = SelectSeq(ring, LAMBDA e : e # EnvelopeOfItem(last'.msg, last'.ts))
            /\ completed_set' = completed_set \ {last'.msg}
            /\ last'.ret = RNone]_vars
    /\ [][(last.op = "remove" /\ last'.op = "remove"
              /\ last'.msg = last.msg /\ last'.ts = last.ts) =>
            ring' = ring /\ completed_set' = completed_set]_vars

\* "a" was pushed twice and one envelope claimed at 1; remove(("a", 1)) has
\* deleted the claimed envelope and left the unclaimed one
RemoveExactWitness ==
    /\ last = Call("remove", <<"a">>, Some(1), RNone)
    /\ npush[<<"a">>] = 2
    /\ nfirst[<<"a">>] = 1
    /\ completed_set = {}
    /\ ring = <<Envelope(<<"a">>, << >>)>>

-----------------------------------------------------------------------------
(* ReliableQueue: redelivery in ring order. *)

\* C17: with pushes and pops only (nothing is acknowledged), every pop on a
\* ring of n envelopes takes the envelope at the tail and puts an envelope of
\* the same payload back at the head, the others keeping their order: any n
\* consecutive pops dequeue each envelope once, and the next n pops dequeue
\* them again in the same order.
RingOrderRedelivery ==
    [][last'.op = "pop" /\ ring # << >> =>
          /\ Len(ring') = Len(ring)
          /\ Tail(ring') = RPopRest(ring)
          /\ \E p \in Payloads : IsEnvelopeOf(RingTail, p) /\ IsEnvelopeOf(Head(ring'), p)]_vars

-----------------------------------------------------------------------------
(* ReliableQueue: the claim timestamp. *)

\* the envelopes of list
Envelopes(list) == {list[i] : i \in 1..Len(list)}

\* C18: a pop that dequeues a claimed envelope whose payload is not in the
\* completion set puts that very envelope back at the head and returns
\* (payload, its timestamp), the ring length and the completion set staying as
\* they were.  No pop changes a claimed envelope: a pop leaves the rest of the
\* ring as it is and puts back nothing, the claimed tail itself, or the
\* unclaimed tail stamped with a reading of the clock.  Any other new claimed
\* envelope is the work of reprocess.
PopKeepsClaim ==
    /\ [][last'.op = "pop" /\ ring # << >> =>
            \A p \in Payloads \ completed_set, t \in Times :
                ClaimedAt(RingTail, p, t) =>
                    /\ ring' = <<RingTail>> \o RPopRest(ring)
                    /\ last'.ret = RTuple(p, Some(t))
                    /\ Len(ring') = Len(ring)
                    /\ completed_set' = completed_set]_vars
    /\ [][last'.op = "pop" /\ ring # << >> =>
            \/ ring' = RPopRest(ring)
            \/ Claimed(RingTail) /\ ring' = <<RingTail>> \o RPopRest(ring)
            \/ \E p \in Payloads, t \in ClockReadings :
                 /\ RingTail = Envelope(p, << >>)
                 /\ ring' = <<Envelope(p, Dec(t))>> \o RPopRest(ring)]_vars
    /\ [][(\E e \in Envelopes(ring') \ Envelopes(ring) : Claimed(e))
            => last'.op \in {"pop", "reprocess"}]_vars

\* "a" was claimed at 1; a pop made when the clock shows 2 has returned
\* ("a", 1) and the envelope is back in the ring with its timestamp
PopKeepsClaimWitness ==
    /\ last = Call("pop", << >>, None, RTuple(<<"a">>, Some(1)))
    /\ IntTime(clock) = 2
    /\ completed_set = {}
    /\ ring = <<Envelope(<<"a">>, Dec(1))>>

====
